---- MODULE Spec2Model ----
(***************************************************************************)
(* Model of the SN corporate rating pipeline (sn_rating_v2): helpers.py,   *)
(* model.py and the tables of config.py.                                   *)
(*                                                                         *)
(* Python floats are IEEE-754 binary64.  The scoring pipeline divides and  *)
(* multiplies small integers (model.py:93, 125, 194; helpers.py:142-143),  *)
(* and the rounding of those operations decides grades and outlooks at     *)
(* band boundaries, so floats are modelled exactly: a finite float is      *)
(* [s, e, m] with value s * m * 2^e, m a 53-bit mantissa held as four      *)
(* little-endian limbs of 14 bits, and every operation rounds to nearest,  *)
(* ties to even.                                                           *)
(***************************************************************************)
EXTENDS Integers, Sequences, FiniteSets, TLC

----------------------------------------------------------------------------
(* binary64 arithmetic *)

LimbBase == 2^14

Limb(a, i) == IF i >= 1 /\ i <= Len(a) THEN a[i] ELSE 0

\* number of significant bits of one limb
LimbBits(x) == CHOOSE k \in 0..14 : x < 2^k /\ (k = 0 \/ x >= 2^(k-1))

TopLimb(a) == IF \A i \in 1..Len(a) : a[i] = 0 THEN 0
              ELSE CHOOSE i \in 1..Len(a) : a[i] # 0 /\ \A j \in (i+1)..Len(a) : a[j] = 0

\* number of significant bits of a, whose top nonzero limb is limb t
BitLenAt(a, t) == IF t = 0 THEN 0 ELSE 14 * (t - 1) + LimbBits(a[t])

BitLen(a) == BitLenAt(a, TopLimb(a))

\* limb i of floor(a / 2^(14*q + r)) and of a * 2^(14*q + r)
ShrLimb(a, q, r, i) == (Limb(a, i + q) \div 2^r) + (Limb(a, i + q + 1) % 2^r) * 2^(14 - r)
ShlLimb(a, q, r, i) == ((Limb(a, i - q) * 2^r) % LimbBase) + (Limb(a, i - q - 1) \div 2^(14 - r))

\* the four low limbs of floor(a / 2^n)
Shr(a, n) == LET q == n \div 14
                 r == n % 14
             IN  <<ShrLimb(a, q, r, 1), ShrLimb(a, q, r, 2), ShrLimb(a, q, r, 3), ShrLimb(a, q, r, 4)>>

\* the four low limbs of a * 2^n
ShlLow(a, n) == LET q == n \div 14
                    r == n % 14
                IN  <<ShlLimb(a, q, r, 1), ShlLimb(a, q, r, 2), ShlLimb(a, q, r, 3), ShlLimb(a, q, r, 4)>>

\* a * 2^n as 8 limbs
Shl(a, n) == LET q == n \div 14
                 r == n % 14
             IN  <<ShlLimb(a, q, r, 1), ShlLimb(a, q, r, 2), ShlLimb(a, q, r, 3), ShlLimb(a, q, r, 4),
                   ShlLimb(a, q, r, 5), ShlLimb(a, q, r, 6), ShlLimb(a, q, r, 7), ShlLimb(a, q, r, 8)>>

BitAt(a, k) == (Limb(a, k \div 14 + 1) \div 2^(k % 14)) % 2

\* the n low bits of a are all zero
LowZero(a, n) == /\ \A i \in 1..(n \div 14) : Limb(a, i) = 0
                 /\ Limb(a, n \div 14 + 1) % 2^(n % 14) = 0

\* limb-wise carry propagation of column sums c (each < 2^31 - 2^17)
RECURSIVE Carry(_, _, _)
Carry(c, i, k) == IF i > Len(c) THEN << >>
                  ELSE LET t == c[i] + k
                       IN  <<t % LimbBase>> \o Carry(c, i + 1, t \div LimbBase)

BigAdd(a, b) == Carry(<<Limb(a, 1) + Limb(b, 1), Limb(a, 2) + Limb(b, 2),
                        Limb(a, 3) + Limb(b, 3), Limb(a, 4) + Limb(b, 4),
                        Limb(a, 5) + Limb(b, 5), Limb(a, 6) + Limb(b, 6),
                        Limb(a, 7) + Limb(b, 7), Limb(a, 8) + Limb(b, 8)>>, 1, 0)

\* a - b for a >= b
RECURSIVE Borrow(_, _, _, _)
Borrow(a, b, i, k) == IF i > 8 THEN << >>
                      ELSE LET d == Limb(a, i) - Limb(b, i) - k
                           IN  <<IF d < 0 THEN d + LimbBase ELSE d>> \o Borrow(a, b, i + 1, IF d < 0 THEN 1 ELSE 0)

BigSub(a, b) == Borrow(a, b, 1, 0)

\* -1, 0, 1 as a < b, a = b, a > b
BigCmp(a, b) == IF \A i \in 1..8 : Limb(a, i) = Limb(b, i) THEN 0
                ELSE LET t == CHOOSE i \in 1..8 : Limb(a, i) # Limb(b, i)
                                   /\ \A j \in (i+1)..8 : Limb(a, j) = Limb(b, j)
                     IN  IF Limb(a, t) < Limb(b, t) THEN -1 ELSE 1

\* the product of two four-limb mantissas
BigMul(a, b) == Carry(<<a[1] * b[1],
                        a[1] * b[2] + a[2] * b[1],
                        a[1] * b[3] + a[2] * b[2] + a[3] * b[1],
                        a[1] * b[4] + a[2] * b[3] + a[3] * b[2] + a[4] * b[1],
                        a[2] * b[4] + a[3] * b[3] + a[4] * b[2],
                        a[3] * b[4] + a[4] * b[3],
                        a[4] * b[4],
                        0>>, 1, 0)

FZero == [s |-> 0, e |-> 0, m |-> <<0, 0, 0, 0>>]
\* float("nan"): a record like the finite floats, told apart by s = 2
FNaN == [s |-> 2, e |-> 0, m |-> <<0, 0, 0, 0>>]
\* float("inf") and float("-inf"): above and below every finite float in FCmp
FInf == [s |-> 1, e |-> 5000, m |-> <<0, 0, 0, 1024>>]
FNegInf == [s |-> -1, e |-> 5000, m |-> <<0, 0, 0, 1024>>]

\* round to nearest, ties to even: a loses its sh low bits, m0 is what is left
RoundsUp(a, sh, sticky, m0) ==
    BitAt(a, sh - 1) = 1 /\ (sticky \/ ~LowZero(a, sh - 1) \/ m0[1] % 2 = 1)

Rounded(a, sh, sticky, m0) == IF RoundsUp(a, sh, sticky, m0) THEN Carry(m0, 1, 1) ELSE m0

\* s * m1 * 2^e, m1 a mantissa that rounding may have carried up to 2^53
Normalised(s, e, m1) == IF m1[4] >= 2048 THEN [s |-> s, e |-> e + 1, m |-> Shr(m1, 1)]
                        ELSE [s |-> s, e |-> e, m |-> m1]

\* FRound for a of L significant bits
FRoundLen(s, a, e, sticky, L) ==
    IF L = 0 THEN FZero
    ELSE IF L <= 53 THEN [s |-> s, e |-> e - (53 - L), m |-> ShlLow(a, 53 - L)]
    ELSE Normalised(s, e + (L - 53), Rounded(a, L - 53, sticky, Shr(a, L - 53)))

\* the float nearest to s * a * 2^e (+ a nonzero tail below the last bit when sticky)
FRound(s, a, e, sticky) == FRoundLen(s, a, e, sticky, BitLen(a))

Abs(n) == IF n < 0 THEN -n ELSE n

\* the float nearest to a / c for integers a and c # 0: Python's int / int, the
\* quotient of two whole-number floats, and the value of a decimal literal
FDiv(a, c) ==
    LET n  == Abs(a)
        b  == Abs(c)
        q0 == n \div b
        r0 == n % b
        d1 == (r0 * LimbBase) \div b
        r1 == (r0 * LimbBase) % b
        d2 == (r1 * LimbBase) \div b
        r2 == (r1 * LimbBase) % b
        d3 == (r2 * LimbBase) \div b
        r3 == (r2 * LimbBase) % b
        d4 == (r3 * LimbBase) \div b
        r4 == (r3 * LimbBase) % b
        d5 == (r4 * LimbBase) \div b
        r5 == (r4 * LimbBase) % b
        d6 == (r5 * LimbBase) \div b
        r6 == (r5 * LimbBase) % b
    IN  FRound(IF (a < 0) # (c < 0) THEN -1 ELSE 1,
               <<d6, d5, d4, d3, d2, d1, q0 % LimbBase, q0 \div LimbBase>>, -84, r6 # 0)

FInt(a) == FDiv(a, 1)

FMul(x, y) == IF x = FNaN \/ y = FNaN THEN FNaN
              ELSE IF x.s = 0 \/ y.s = 0 THEN FZero
              ELSE FRound(x.s * y.s, BigMul(x.m, y.m), x.e + y.e, FALSE)

FAdd(x, y) == IF x = FNaN \/ y = FNaN THEN FNaN
              ELSE IF x.s = 0 THEN y
              ELSE IF y.s = 0 THEN x
              ELSE LET big   == IF x.e >= y.e THEN x ELSE y
                       small == IF x.e >= y.e THEN y ELSE x
                       d     == big.e - small.e
                   IN  IF d >= 55 THEN big
                       ELSE LET hi == Shl(big.m, d)
                            IN  IF big.s = small.s
                                THEN FRound(big.s, BigAdd(hi, small.m), small.e, FALSE)
                                ELSE IF BigCmp(hi, small.m) >= 0
                                THEN FRound(big.s, BigSub(hi, small.m), small.e, FALSE)
                                ELSE FRound(small.s, BigSub(small.m, hi), small.e, FALSE)

\* -1, 0, 1 as x < y, x = y, x > y (neither is nan)
FCmp(x, y) == IF x.s # y.s THEN (IF x.s < y.s THEN -1 ELSE 1)
              ELSE IF x.s = 0 THEN 0
              ELSE IF x.e # y.e THEN (IF x.e < y.e THEN -x.s ELSE x.s)
              ELSE x.s * BigCmp(x.m, y.m)

\* comparisons with nan are false
FLt(x, y) == x # FNaN /\ y # FNaN /\ FCmp(x, y) < 0
FLe(x, y) == x # FNaN /\ y # FNaN /\ FCmp(x, y) <= 0
FEq(x, y) == x # FNaN /\ y # FNaN /\ FCmp(x, y) = 0

\* math.floor of a float of magnitude below 2^27
FFloor(x) == IF x.s = 0 THEN 0
             ELSE IF -x.e >= 53 THEN (IF x.s > 0 THEN 0 ELSE -1)
             ELSE LET t == Shr(x.m, -x.e)
                      v == t[1] + t[2] * LimbBase
                  IN  IF x.s > 0 THEN v
                      ELSE IF LowZero(x.m, -x.e) THEN -v ELSE -v - 1


----------------------------------------------------------------------------
(* Values.  A float the caller writes as a decimal with two places is      *)
(* Dec(h), h its hundredths.  Whole-number floats that the code only adds, *)
(* subtracts 1 from or compares (grid scores, cutoffs, band limits, notch  *)
(* counts) are Integers: those operations are exact on them.               *)
(* Optional[T] is a sequence: << >> for None, <<v>> for a value v.  A dict *)
(* is a function on its keys.                                              *)

Dec(h) == FDiv(h, 100)

None == << >>
Some(v) == <<v>>

Get(d, k) == IF k \in DOMAIN d THEN Some(d[k]) ELSE None

EmptyDict == [k \in {} |-> 0]

Max(a, b) == IF a >= b THEN a ELSE b
Min(a, b) == IF a <= b THEN a ELSE b

----------------------------------------------------------------------------
(* config.py *)

RATIO_FAMILY ==
    [debt_ebitda |-> "leverage", net_debt_ebitda |-> "leverage",
     debt_equity |-> "leverage", debt_capital |-> "leverage",
     ffo_debt |-> "leverage_rev", fcf_debt |-> "leverage_rev",
     interest_coverage |-> "coverage", fixed_charge_coverage |-> "coverage",
     dscr |-> "coverage",
     ebitda_margin |-> "profit", ebit_margin |-> "profit", roa |-> "profit", roe |-> "profit",
     capex_dep |-> "other", current_ratio |-> "other", rollover_coverage |-> "other",
     altman_z |-> "altman"]

\* SCORE_TO_RATING as shipped: (cutoff, grade), descending
ShippedScoreToRating ==
    << <<95, "AAA">>, <<90, "AA+">>, <<85, "AA">>, <<80, "AA-">>,
       <<75, "A+">>, <<70, "A">>, <<65, "A-">>,
       <<60, "BBB+">>, <<55, "BBB">>, <<50, "BBB-">>,
       <<45, "BB+">>, <<40, "BB">>, <<35, "BB-">>,
       <<30, "B+">>, <<25, "B">>, <<20, "B-">>,
       <<15, "CCC+">>, <<10, "CCC">>, <<5, "CCC-">>,
       <<2, "CC">>, <<0, "C">> >>

RATING_SCALE ==
    << "AAA", "AA+", "AA", "AA-",
       "A+", "A", "A-",
       "BBB+", "BBB", "BBB-",
       "BB+", "BB", "BB-",
       "B+", "B", "B-",
       "CCC+", "CCC", "CCC-",
       "CC", "C" >>

\* RATING_WEIGHTS as shipped: both None, weights follow the item counts
ShippedRatingWeights == [quantitative |-> None, qualitative |-> None]

\* (threshold, notches)
DISTRESS_BANDS ==
    [interest_coverage |-> << <<Dec(50), -4>>, <<Dec(80), -3>>, <<Dec(100), -2>> >>,
     dscr              |-> << <<Dec(80), -3>>, <<Dec(90), -2>>, <<Dec(100), -1>> >>,
     altman_z          |-> << <<Dec(120), -4>>, <<Dec(150), -3>>, <<Dec(181), -2>> >>]

MAX_DISTRESS_NOTCHES == -4

\* (low, high, score); Dec(h) is the float of the decimal literal h/100
RATIO_GRIDS ==
    [debt_ebitda |-> << <<FNegInf, Dec(200), 100>>, <<Dec(200), Dec(300), 75>>, <<Dec(300), Dec(400), 50>>,
                        <<Dec(400), Dec(600), 25>>, <<Dec(600), FInf, 0>> >>,
     net_debt_ebitda |-> << <<FNegInf, Dec(150), 100>>, <<Dec(150), Dec(300), 75>>, <<Dec(300), Dec(450), 50>>,
                            <<Dec(450), Dec(600), 25>>, <<Dec(600), FInf, 0>> >>,
     ffo_debt |-> << <<Dec(40), FInf, 100>>, <<Dec(25), Dec(40), 75>>, <<Dec(12), Dec(25), 50>>,
                     <<Dec(0), Dec(12), 25>>, <<FNegInf, Dec(0), 0>> >>,
     fcf_debt |-> << <<Dec(20), FInf, 100>>, <<Dec(10), Dec(20), 75>>, <<Dec(0), Dec(10), 50>>,
                     <<Dec(-10), Dec(0), 25>>, <<FNegInf, Dec(-10), 0>> >>,
     debt_equity |-> << <<FNegInf, Dec(50), 100>>, <<Dec(50), Dec(100), 75>>, <<Dec(100), Dec(200), 50>>,
                        <<Dec(200), Dec(400), 25>>, <<Dec(400), FInf, 0>> >>,
     debt_capital |-> << <<FNegInf, Dec(20), 100>>, <<Dec(20), Dec(35), 75>>, <<Dec(35), Dec(50), 50>>,
                         <<Dec(50), Dec(70), 25>>, <<Dec(70), FInf, 0>> >>,
     interest_coverage |-> << <<Dec(800), FInf, 100>>, <<Dec(500), Dec(800), 75>>, <<Dec(300), Dec(500), 50>>,
                              <<Dec(150), Dec(300), 25>>, <<FNegInf, Dec(150), 0>> >>,
     fixed_charge_coverage |-> << <<Dec(600), FInf, 100>>, <<Dec(400), Dec(600), 75>>, <<Dec(250), Dec(400), 50>>,
                                  <<Dec(150), Dec(250), 25>>, <<FNegInf, Dec(150), 0>> >>,
     dscr |-> << <<Dec(200), FInf, 100>>, <<Dec(150), Dec(200), 75>>, <<Dec(120), Dec(150), 50>>,
                 <<Dec(100), Dec(120), 25>>, <<FNegInf, Dec(100), 0>> >>,
     ebitda_margin |-> << <<Dec(25), FInf, 100>>, <<Dec(15), Dec(25), 75>>, <<Dec(10), Dec(15), 50>>,
                          <<Dec(5), Dec(10), 25>>, <<FNegInf, Dec(5), 0>> >>,
     ebit_margin |-> << <<Dec(15), FInf, 100>>, <<Dec(10), Dec(15), 75>>, <<Dec(5), Dec(10), 50>>,
                        <<Dec(0), Dec(5), 25>>, <<FNegInf, Dec(0), 0>> >>,
     roa |-> << <<Dec(12), FInf, 100>>, <<Dec(8), Dec(12), 75>>, <<Dec(4), Dec(8), 50>>,
                <<Dec(0), Dec(4), 25>>, <<FNegInf, Dec(0), 0>> >>,
     roe |-> << <<Dec(20), FInf, 100>>, <<Dec(12), Dec(20), 75>>, <<Dec(5), Dec(12), 50>>,
                <<Dec(0), Dec(5), 25>>, <<FNegInf, Dec(0), 0>> >>,
     capex_dep |-> << <<Dec(120), Dec(180), 100>>, <<Dec(90), Dec(120), 75>>, <<Dec(180), Dec(250), 75>>,
                      <<Dec(70), Dec(90), 50>>, <<Dec(250), Dec(350), 50>>, <<Dec(50), Dec(70), 25>>,
                      <<Dec(350), FInf, 25>>, <<FNegInf, Dec(50), 0>> >>,
     current_ratio |-> << <<Dec(200), FInf, 100>>, <<Dec(150), Dec(200), 75>>, <<Dec(100), Dec(150), 50>>,
                          <<Dec(70), Dec(100), 25>>, <<FNegInf, Dec(70), 0>> >>,
     rollover_coverage |-> << <<Dec(200), FInf, 100>>, <<Dec(120), Dec(200), 75>>, <<Dec(80), Dec(120), 50>>,
                              <<Dec(50), Dec(80), 25>>, <<FNegInf, Dec(50), 0>> >>,
     altman_z |-> << <<Dec(300), FInf, 100>>, <<Dec(270), Dec(300), 75>>, <<Dec(180), Dec(270), 50>>,
                     <<Dec(150), Dec(180), 25>>, <<FNegInf, Dec(150), 0>> >>]

QUAL_SCORE_SCALE == (5 :> 100) @@ (4 :> 75) @@ (3 :> 50) @@ (2 :> 25) @@ (1 :> 0)

----------------------------------------------------------------------------
VARIABLES
    SCORE_TO_RATING,        \* config: the cutoff table in force
    RATING_WEIGHTS,         \* config: the explicit weights in force (None: automatic)
    quant_inputs,           \* QuantInputs: fin_t0, fin_t1, components_t0, peers_t0
    qual_inputs,            \* QualInputs: factors_t0
    sovereign_rating,       \* Optional[str]
    sovereign_outlook,      \* Optional[str]
    enable_hardstops,
    enable_sovereign_cap,
    out,                    \* what compute_final_rating gave: nothing yet, a RatingOutputs, an exception
    call                    \* a direct call of a helper: its name, arguments and result

vars == <<SCORE_TO_RATING, RATING_WEIGHTS, quant_inputs, qual_inputs, sovereign_rating,
          sovereign_outlook, enable_hardstops, enable_sovereign_cap, out, call>>

----------------------------------------------------------------------------
(* helpers.py.  A loop that returns at its first match is a recursive scan *)
(* from position i; a value a function computes once and uses again is    *)
(* handed on as the argument of the operator that uses it.                *)

\* a call's outcome: a returned value, or the exception it raised
Ret(v) == [exc |-> "", v |-> v]
Raise(e) == [exc |-> e]

Range(s) == {s[i] : i \in DOMAIN s}

RECURSIVE SumSeq(_)
SumSeq(s) == IF Len(s) = 0 THEN 0 ELSE s[1] + SumSeq(Tail(s))

InInterval_upper_closed(iv, value) == FLt(iv[1], value) /\ FLe(value, iv[2])

\* low <= value < high
InInterval(iv, value) == FLe(iv[1], value) /\ FLt(value, iv[2])

\* for low, high, score in grid, from interval i on
RECURSIVE ScanGrid(_, _, _)
ScanGrid(grid, i, value) ==
    IF i > Len(grid) THEN None
    ELSE IF InInterval(grid[i], value) THEN Some(grid[i][3])
    ELSE ScanGrid(grid, i + 1, value)

\* value is a float, or None
score_ratio(name, value) ==
    IF name \notin DOMAIN RATIO_GRIDS \/ RATIO_GRIDS[name] = << >> \/ value = None \/ value = FNaN
    THEN None
    ELSE ScanGrid(RATIO_GRIDS[name], 1, value)

score_qual_factor_numeric(value) == Get(QUAL_SCORE_SCALE, value)

\* the coefficients 1.2, 1.4, 3.3, 0.6, 1.0
AltmanCoef == <<Dec(120), Dec(140), Dec(330), Dec(60), Dec(100)>>

\* the seven components are whole numbers
compute_altman_z_from_components(working_capital, total_assets, retained_earnings, ebit, market_value_equity, total_liabilities, sales) ==
    IF total_assets = 0 \/ total_liabilities = 0 THEN FNaN
    ELSE LET A == FDiv(working_capital, total_assets)
             B == FDiv(retained_earnings, total_assets)
             C == FDiv(ebit, total_assets)
             D == FDiv(market_value_equity, total_liabilities)
             E == FDiv(sales, total_assets)
         IN  FAdd(FAdd(FAdd(FAdd(FMul(AltmanCoef[1], A), FMul(AltmanCoef[2], B)),
                            FMul(AltmanCoef[3], C)),
                       FMul(AltmanCoef[4], D)),
                  FMul(AltmanCoef[5], E))

\* the factor 0.9 and the shares 0.10, 0.30, 0.60, 0.80
PeerUnderFactor == Dec(90)
PeerShares == <<Dec(10), Dec(30), Dec(60), Dec(80)>>

\* mean(peer_vals) of a list of whole numbers: the correctly rounded quotient of the sum
PeerAvg(peer_vals) == FDiv(SumSeq(peer_vals), Len(peer_vals))

\* the ratios the loop counts in total
PeerCompared(fin_current, peers) ==
    {r \in DOMAIN peers : /\ r \in DOMAIN fin_current
                          /\ Len(peers[r]) > 0
                          /\ PeerAvg(peers[r]) # FZero}

\* the ratios the loop counts in under
PeerUnder(fin_current, peers, compared) ==
    {r \in compared : FLt(fin_current[r], FMul(PeerAvg(peers[r]), PeerUnderFactor))}

PeerScoreOfShare(under_share) ==
    IF FLe(under_share, PeerShares[1]) THEN Some(100)
    ELSE IF FLe(under_share, PeerShares[2]) THEN Some(75)
    ELSE IF FLe(under_share, PeerShares[3]) THEN Some(50)
    ELSE IF FLe(under_share, PeerShares[4]) THEN Some(25)
    ELSE Some(0)

PeerScoreOfCounts(under, total) ==
    IF total = 0 THEN None ELSE PeerScoreOfShare(FDiv(under, total))

PeerScoreOver(fin_current, peers, compared) ==
    PeerScoreOfCounts(Cardinality(PeerUnder(fin_current, peers, compared)), Cardinality(compared))

compute_peer_score(fin_current, peers) ==
    PeerScoreOver(fin_current, peers, PeerCompared(fin_current, peers))

\* the scan with a strict comparison (score > cutoff)
RECURSIVE ScanCutoffs_strictly_above(_, _, _)
ScanCutoffs_strictly_above(table, i, floor) ==
    IF i > Len(table) THEN Raise("ValueError")
    ELSE IF floor > table[i][1] THEN Ret(table[i][2])
    ELSE ScanCutoffs_strictly_above(table, i + 1, floor)

\* for cutoff, grade in SCORE_TO_RATING, from entry i on.  score >= cutoff is exact
\* on floats and, the cutoff being a whole number, holds exactly when
\* floor(score) >= cutoff; floor is the floored score
RECURSIVE ScanCutoffs(_, _, _)
ScanCutoffs(table, i, floor) ==
    IF i > Len(table) THEN Raise("ValueError")
    ELSE IF floor >= table[i][1] THEN Ret(table[i][2])
    ELSE ScanCutoffs(table, i + 1, floor)

score_to_rating(score) == ScanCutoffs(SCORE_TO_RATING, 1, FFloor(score))

\* the except branch of safe_score_to_rating
OrNotRated(r) == IF r.exc = "ValueError" THEN "N/R" ELSE r.v

safe_score_to_rating(score) == OrNotRated(score_to_rating(score))

\* RATING_SCALE.index(grade), from 0
Index(grade) == (CHOOSE i \in 1..Len(RATING_SCALE) : RATING_SCALE[i] = grade) - 1

move_notches_unclamped(grade, notches) ==
    IF grade \notin Range(RATING_SCALE) THEN grade
    ELSE LET new_idx == Index(grade) - notches
         IN  IF new_idx \in 0..(Len(RATING_SCALE) - 1) THEN RATING_SCALE[new_idx + 1] ELSE "off-scale"

move_notches_reversed(grade, notches) ==
    IF grade \notin Range(RATING_SCALE) THEN grade
    ELSE RATING_SCALE[Max(0, Min(Index(grade) + notches, Len(RATING_SCALE) - 1)) + 1]

move_notches(grade, notches) ==
    IF grade \notin Range(RATING_SCALE) THEN grade
    ELSE LET idx == Index(grade)
             new_idx == Max(0, Min(idx - notches, Len(RATING_SCALE) - 1))
         IN  RATING_SCALE[new_idx + 1]

apply_sovereign_cap_skipped(issuer_grade, sovereign_grade) == issuer_grade

apply_sovereign_cap_better(issuer_grade, sovereign_grade) ==
    IF sovereign_grade = None THEN issuer_grade
    ELSE IF issuer_grade \notin Range(RATING_SCALE) \/ sovereign_grade[1] \notin Range(RATING_SCALE)
    THEN issuer_grade
    ELSE RATING_SCALE[Min(Index(issuer_grade), Index(sovereign_grade[1])) + 1]

apply_sovereign_cap(issuer_grade, sovereign_grade) ==
    IF sovereign_grade = None THEN issuer_grade
    ELSE IF issuer_grade \notin Range(RATING_SCALE) \/ sovereign_grade[1] \notin Range(RATING_SCALE)
    THEN issuer_grade
    ELSE LET i == Index(issuer_grade)
             s == Index(sovereign_grade[1])
         IN  RATING_SCALE[Max(i, s) + 1]

compute_effective_weights_auto_only(n_quant, n_qual) ==
    LET nq == Max(n_quant, 0)
        nl == Max(n_qual, 0)
    IN  IF nq + nl = 0 THEN <<FZero, FZero>> ELSE <<FDiv(nq, nq + nl), FDiv(nl, nq + nl)>>

compute_effective_weights(n_quant, n_qual) ==
    LET wq_cfg == RATING_WEIGHTS.quantitative
        wl_cfg == RATING_WEIGHTS.qualitative
        nq == Max(n_quant, 0)
        nl == Max(n_qual, 0)
        total == nq + nl
    IN  IF wq_cfg # None /\ wl_cfg # None THEN <<wq_cfg[1], wl_cfg[1]>>
        ELSE IF total = 0 THEN <<FZero, FZero>>
        ELSE <<FDiv(nq, total), FDiv(nl, total)>>

\* for i, (cutoff, grade) in enumerate(SCORE_TO_RATING), from entry i on: the position
\* of the first entry with the grade, 0 when the loop ends without one
RECURSIVE FindGrade(_, _, _)
FindGrade(table, i, rating) ==
    IF i > Len(table) THEN 0
    ELSE IF table[i][2] = rating THEN i
    ELSE FindGrade(table, i + 1, rating)

BandAtNoGap(table, i) ==
    IF i = 0 THEN Raise("ValueError")
    ELSE Ret(<<table[i][1], IF i = 1 THEN 100 ELSE table[i - 1][1]>>)

\* the band of entry i: its cutoff, and 100 for the first entry, else the previous
\* cutoff minus 1
BandAt(table, i) ==
    IF i = 0 THEN Raise("ValueError")
    ELSE Ret(<<table[i][1], IF i = 1 THEN 100 ELSE table[i - 1][1] - 1>>)

get_rating_band_to_next_cutoff(rating) ==
    BandAtNoGap(SCORE_TO_RATING, FindGrade(SCORE_TO_RATING, 1, rating))

get_rating_band(rating) == BandAt(SCORE_TO_RATING, FindGrade(SCORE_TO_RATING, 1, rating))

\* band is what get_rating_band gave, cs the floored score
OutlookInBand(band, cs) ==
    IF band.exc # "" THEN Raise(band.exc)
    ELSE IF cs = band.v[2] THEN Ret("Positive")
    ELSE IF cs = band.v[1] THEN Ret("Negative")
    ELSE Ret("Stable")

derive_outlook_band_only(combined_score, rating) ==
    OutlookInBand(get_rating_band(rating), FFloor(combined_score))

derive_outlook_with_distress_trend(base_outlook, distress_notches, fin_t0, fin_t1) ==
    IF distress_notches >= 0 THEN base_outlook
    ELSE LET ratios == {"interest_coverage", "dscr", "altman_z"}
             both == {r \in ratios : r \in DOMAIN fin_t0 /\ r \in DOMAIN fin_t1}
             improving == \E r \in both : FLt(fin_t1[r], fin_t0[r])
             deteriorating == \E r \in both : FLt(fin_t0[r], fin_t1[r])
         IN  IF improving /\ ~deteriorating THEN "Stable"
             ELSE IF deteriorating /\ ~improving THEN "Negative"
             ELSE "Stable"

----------------------------------------------------------------------------
(* model.py *)

ComponentKeys == {"working_capital", "total_assets", "retained_earnings", "ebit",
                  "market_value_equity", "total_liabilities", "sales"}

\* fin["altman_z"] = z; return z (model.py:43-45)
WithAltmanZ(fin, z) ==
    [exc |-> "", z |-> z,
     fin |-> [k \in DOMAIN fin \cup {"altman_z"} |-> IF k = "altman_z" THEN z ELSE fin[k]]]

\* fin is the dict the method may write to; the result carries it back
ensure_altman_z(fin, comps) ==
    IF "altman_z" \in DOMAIN fin THEN [exc |-> "", z |-> fin["altman_z"], fin |-> fin]
    ELSE IF ~(ComponentKeys \subseteq DOMAIN comps) THEN Raise("KeyError")
    ELSE WithAltmanZ(fin, compute_altman_z_from_components(
                              comps["working_capital"], comps["total_assets"],
                              comps["retained_earnings"], comps["ebit"],
                              comps["market_value_equity"], comps["total_liabilities"],
                              comps["sales"]))

CallerDictAfter_aliased(caller, written) == written

\* fin = dict(q.fin_t0): the caller's dict once the method has written to fin, which
\* is a copy of it
CallerDictAfter(caller, written) == caller

\* the sum of the scores of a set of (name, score) pairs
RECURSIVE SumScores(_)
SumScores(S) == IF S = {} THEN 0
                ELSE LET p == CHOOSE p \in S : TRUE IN p[2][1] + SumScores(S \ {p})

\* the loop over fin.items(): the (name, score) pairs appended to scores
RatioScores(fin) ==
    {p \in {<<r, score_ratio(r, fin[r])>> : r \in DOMAIN fin \cap DOMAIN RATIO_FAMILY} : p[2] # None}

\* scored: the ratio scores; peer_score joins them when it is not None (model.py:86-95)
QuantAggregate(q, ens, scored, peer_score) ==
    LET total == SumScores(scored) + (IF peer_score # None THEN peer_score[1] ELSE 0)
        n_quant_items == Cardinality(scored) + (IF peer_score # None THEN 1 ELSE 0)
    IN  [exc |-> "",
         quantitative_score |-> IF n_quant_items > 0 THEN FDiv(total, n_quant_items) ELSE FZero,
         peer_score |-> peer_score,
         altman_z |-> ens.z,
         n_quant_items |-> n_quant_items,
         \* the caller's q.fin_t0 once the method is done
         fin_t0 |-> CallerDictAfter(q.fin_t0, ens.fin)]

\* ens is what _ensure_altman_z gave
QuantScored(q, ens) ==
    IF ens.exc # "" THEN Raise(ens.exc)
    ELSE QuantAggregate(q, ens, RatioScores(ens.fin), compute_peer_score(ens.fin, q.peers_t0))

\* bucket_avgs, a report of per-family means, is left out
compute_quantitative(q) == QuantScored(q, ensure_altman_z(q.fin_t0, q.components_t0))

QualScores_unscorable_as_zero(f) ==
    {<<k, IF score_qual_factor_numeric(f[k]) = None THEN Some(0) ELSE score_qual_factor_numeric(f[k])>> :
        k \in DOMAIN f}

\* the loop over factors_t0.items(): the (name, score) pairs appended to scores
QualScores(f) == {p \in {<<k, score_qual_factor_numeric(f[k])>> : k \in DOMAIN f} : p[2] # None}

QualAggregate(scored) ==
    [qualitative_score |-> IF Cardinality(scored) > 0
                           THEN FDiv(SumScores(scored), Cardinality(scored)) ELSE FZero,
     n_qual_items |-> Cardinality(scored)]

compute_qualitative(ql) == QualAggregate(QualScores(ql.factors_t0))

RECURSIVE FirstBand_at_or_below(_, _, _)
FirstBand_at_or_below(bands, i, v) ==
    IF i > Len(bands) THEN None
    ELSE IF FLe(v, bands[i][1]) THEN Some(bands[i][2])
    ELSE FirstBand_at_or_below(bands, i + 1, v)

\* for threshold, notches in bands, from band i on: the penalty of the first band whose
\* threshold v is strictly below, None when the loop ends without a break
RECURSIVE FirstBand(_, _, _)
FirstBand(bands, i, v) ==
    IF i > Len(bands) THEN None
    ELSE IF FLt(v, bands[i][1]) THEN Some(bands[i][2])
    ELSE FirstBand(bands, i + 1, v)

\* the band a metric fires, None for a metric that is None
MetricBand(name, v) == IF v = None THEN None ELSE FirstBand(DISTRESS_BANDS[name], 1, v[1])

\* total_notches and details from the bands fired (None: no band)
DistressOf(fin, altman_z, b_ic, b_dscr, b_z) ==
    [total_notches |-> SumSeq(b_ic) + SumSeq(b_dscr) + SumSeq(b_z),
     details |-> [k \in (IF b_ic # None THEN {"interest_coverage"} ELSE {})
                        \cup (IF b_dscr # None THEN {"dscr"} ELSE {})
                        \cup (IF b_z # None THEN {"altman_z"} ELSE {})
                  |-> IF k = "altman_z" THEN altman_z ELSE fin[k]]]

\* total_notches and details before the floor is applied (model.py:138-161)
DistressBandsFired(fin, altman_z) ==
    DistressOf(fin, altman_z,
               MetricBand("interest_coverage", Get(fin, "interest_coverage")),
               MetricBand("dscr", Get(fin, "dscr")),
               MetricBand("altman_z", Some(altman_z)))

\* if total_notches < MAX_DISTRESS_NOTCHES: total_notches = MAX_DISTRESS_NOTCHES
Floored(d) ==
    [total_notches |-> IF d.total_notches < MAX_DISTRESS_NOTCHES THEN MAX_DISTRESS_NOTCHES
                       ELSE d.total_notches,
     details |-> d.details]

compute_distress_notches_unfloored(fin, altman_z) == DistressBandsFired(fin, altman_z)

compute_distress_notches(fin, altman_z) == Floored(DistressBandsFired(fin, altman_z))

cap_binding_whatever_the_flag(sov_cap, sov_rating, final_rating) ==
    sov_rating # None /\ Some(final_rating) = sov_rating

\* model.py:219-224
sovereign_cap_binding(sov_cap, sov_rating, final_rating) ==
    sov_cap /\ sov_rating # None /\ Some(final_rating) = sov_rating

outlook_of_base_always(base_outlook, sov_outlook, hardstop_rating, capped_rating, sov_rating) ==
    base_outlook

outlook_of_sovereign_always(base_outlook, sov_outlook, hardstop_rating, capped_rating, sov_rating) ==
    sov_outlook

\* the outlook of the sovereign-binding branch (model.py:237-255)
SovereignBindingOutlook(base_outlook, sov_outlook, hardstop_rating, capped_rating, sov_rating) ==
    IF hardstop_rating = capped_rating /\ capped_rating = sov_rating /\ base_outlook = sov_outlook
    THEN base_outlook
    ELSE IF base_outlook = "Positive" /\ sov_outlook \in {"Stable", "Negative"} THEN sov_outlook
    ELSE IF base_outlook = "Negative" \/ sov_outlook = "Negative" THEN "Negative"
    ELSE "Stable"

\* the clauses of rating_explanation, by kind; the figures they quote are in the record
Explanation(hardstop_triggered, cap_on, binding, hardstop_rating, capped_rating) ==
    << "core",
       IF hardstop_triggered THEN "distress" ELSE "no_distress",
       IF cap_on THEN (IF binding THEN (IF hardstop_rating # capped_rating THEN "cap_binding"
                                                                     ELSE "cap_aligned")
                                  ELSE "cap_not_binding")
                 ELSE "no_cap",
       "final" >>

outlook_unguarded(final_rating, outlook) == outlook

\* the final guard: no Positive outlook at AAA (model.py:267-269)
GuardedOutlook(final_rating, outlook) ==
    IF final_rating = "AAA" /\ outlook = "Positive" THEN "Stable" ELSE outlook

\* The steps of compute_final_rating.  a is the call's arguments: q, ql, sov_rating,
\* sov_outlook, hardstops, sov_cap.  The result is the RatingOutputs (exc = "") or the
\* exception that reached the caller, with three things a caller can observe beside it:
\* base_outlook, outlook_branch and branch_outlook (the band outlook, the branch taken
\* and the outlook it assigned, before the final guard; model.py:228-265) and fin_t0, the caller's current-period dict after the call.
\* issuer_name and bucket_avgs are left out.

\* steps 7.2 to 8: the outlook branches, the guard, the flags and the snapshot
RateOutlook(a, quant, qual, combined_score, base_rating, distress, hardstop_rating, capped_rating, base_outlook) ==
    LET final_rating == capped_rating
        hardstop_triggered == distress.total_notches < 0
        binding == sovereign_cap_binding(a.sov_cap, a.sov_rating, final_rating)
        branch == IF binding
                     /\ a.sov_outlook \in {Some("Positive"), Some("Stable"), Some("Negative")}
                  THEN "sovereign" ELSE "trend"
        outlook == IF branch = "sovereign"
                   THEN SovereignBindingOutlook(base_outlook, a.sov_outlook[1], hardstop_rating,
                                                capped_rating, a.sov_rating[1])
                   ELSE derive_outlook_with_distress_trend(base_outlook, distress.total_notches,
                                                           a.q.fin_t0, a.q.fin_t1)
    IN  [exc |-> "",
         quantitative_score |-> quant.quantitative_score,
         qualitative_score |-> qual.qualitative_score,
         combined_score |-> combined_score,
         peer_score |-> quant.peer_score,
         base_rating |-> base_rating,
         distress_notches |-> distress.total_notches,
         hardstop_rating |-> hardstop_rating,
         capped_rating |-> capped_rating,
         final_rating |-> final_rating,
         hardstop_triggered |-> hardstop_triggered,
         hardstop_details |-> distress.details,
         sovereign_rating |-> a.sov_rating,
         sovereign_outlook |-> a.sov_outlook,
         sovereign_cap_binding |-> binding,
         base_outlook |-> base_outlook,
         outlook_branch |-> branch,
         branch_outlook |-> outlook,
         outlook |-> GuardedOutlook(final_rating, outlook),
         altman_z_t0 |-> quant.altman_z,
         flags |-> [enable_hardstops |-> a.hardstops,
                    enable_sovereign_cap |-> a.sov_cap /\ a.sov_rating # None,
                    hardstop_triggered |-> hardstop_triggered,
                    sovereign_cap_binding |-> binding],
         rating_explanation |-> Explanation(hardstop_triggered, a.sov_cap /\ a.sov_rating # None,
                                            binding, hardstop_rating, capped_rating),
         fin_t0 |-> quant.fin_t0]

\* step 7.1: the base outlook; band is what derive_outlook_band_only gave
RateBanded(a, quant, qual, combined_score, base_rating, distress, hardstop_rating, capped_rating, band) ==
    IF band.exc # "" THEN [exc |-> band.exc, fin_t0 |-> quant.fin_t0]
    ELSE RateOutlook(a, quant, qual, combined_score, base_rating, distress, hardstop_rating,
                     capped_rating, band.v)

RateNotched_band_of_notched(a, quant, qual, combined_score, base_rating, distress, hardstop_rating) ==
    RateBanded(a, quant, qual, combined_score, base_rating, distress, hardstop_rating,
               IF a.sov_cap /\ a.sov_rating # None
               THEN apply_sovereign_cap(hardstop_rating, a.sov_rating)
               ELSE hardstop_rating,
               derive_outlook_band_only(combined_score, hardstop_rating))

\* step 5: the sovereign cap
RateNotched(a, quant, qual, combined_score, base_rating, distress, hardstop_rating) ==
    RateBanded(a, quant, qual, combined_score, base_rating, distress, hardstop_rating,
               IF a.sov_cap /\ a.sov_rating # None
               THEN apply_sovereign_cap(hardstop_rating, a.sov_rating)
               ELSE hardstop_rating,
               derive_outlook_band_only(combined_score, base_rating))

\* step 4, second half: hardstop_rating
RateDistressed(a, quant, qual, combined_score, base_rating, distress) ==
    RateNotched(a, quant, qual, combined_score, base_rating, distress,
                move_notches(base_rating, distress.total_notches))

RateCombined_hardstops_always(a, quant, qual, combined_score) ==
    RateDistressed(a, quant, qual, combined_score,
                   safe_score_to_rating(combined_score),
                   compute_distress_notches(a.q.fin_t0, quant.altman_z))

\* steps 3 and 4: the base rating and the distress notches
RateCombined(a, quant, qual, combined_score) ==
    RateDistressed(a, quant, qual, combined_score,
                   safe_score_to_rating(combined_score),
                   IF a.hardstops THEN compute_distress_notches(a.q.fin_t0, quant.altman_z)
                   ELSE [total_notches |-> 0, details |-> EmptyDict])

\* wq * quant_score + wl * qual_score
CombinedScore(w, quant_score, qual_score) == FAdd(FMul(w[1], quant_score), FMul(w[2], qual_score))

\* step 2: the weights and the combined score
RateScored(a, quant, qual) ==
    IF quant.exc # "" THEN [exc |-> quant.exc, fin_t0 |-> a.q.fin_t0]
    ELSE RateCombined(a, quant, qual,
                      CombinedScore(compute_effective_weights(quant.n_quant_items, qual.n_qual_items),
                                    quant.quantitative_score, qual.qualitative_score))

\* step 1: the quantitative and qualitative scores
compute_final_rating(q, ql, sov_rating, sov_outlook, hardstops, sov_cap) ==
    RateScored([q |-> q, ql |-> ql, sov_rating |-> sov_rating, sov_outlook |-> sov_outlook,
                hardstops |-> hardstops, sov_cap |-> sov_cap],
               compute_quantitative(q), compute_qualitative(ql))

----------------------------------------------------------------------------
(* The inputs of a run.  Ratio values are decimals in hundredths.          *)

MaxQual == 2        \* qualitative factors per run
MaxExtra == 6       \* ratios beside the three distress metrics per run
MaxNotch == 25      \* notches of a direct move_notches call, either way
MaxCount == 18      \* item counts of a direct compute_effective_weights call

OptDec(S) == {None} \cup {Some(Dec(h)) : h \in S}

\* the dict holding the keys k with e[k] # None
DictOf(e) == [k \in {k \in DOMAIN e : e[k] # None} |-> e[k][1]]

\* Z = 4.48
FullComponents == [working_capital |-> 100, total_assets |-> 200, retained_earnings |-> 50,
                   ebit |-> 20, market_value_equity |-> 300, total_liabilities |-> 150,
                   sales |-> 400]

\* the weak balance sheet: Z = 1.08
WeakComponents == [working_capital |-> -20, total_assets |-> 200, retained_earnings |-> 10,
                   ebit |-> -10, market_value_equity |-> 30, total_liabilities |-> 150,
                   sales |-> 250]

ComponentsSet == {FullComponents, WeakComponents,
                  [FullComponents EXCEPT !.total_assets = 0],
                  [FullComponents EXCEPT !.total_liabilities = 0],
                  [k \in ComponentKeys \ {"sales"} |-> FullComponents[k]],
                  EmptyDict}

\* the three distress metrics of the current period
DistressFinSet ==
    {DictOf([interest_coverage |-> ic, dscr |-> d, altman_z |-> z]) :
        ic \in OptDec({40, 400, 900}), d \in OptDec({95, 300}),
        z \in OptDec({130, 350}) \cup {Some(FNaN)}}

\* the prior period of the three distress metrics
PriorFinSet ==
    {DictOf([interest_coverage |-> ic, dscr |-> d, altman_z |-> z]) :
        ic \in OptDec({20, 40, 500}), d \in OptDec({20, 500}), z \in OptDec({20, 500})}

QualNames == <<"management_quality", "industry_position", "governance", "strategy", "disclosure">>

\* factors_t0 on the first k names, k <= MaxQual
FactorsSet(values) == UNION {[{QualNames[i] : i \in 1..k} -> values] : k \in 0..MaxQual}

\* the ratios beside the distress metrics, each with a sample scoring 100 and one scoring 0
ExtraNames == <<"debt_ebitda", "ffo_debt", "capex_dep", "current_ratio", "roe", "fcf_debt",
                "debt_equity", "ebitda_margin", "net_debt_ebitda", "roa">>

ExtraSamples ==
    [debt_ebitda |-> <<100, 700>>, ffo_debt |-> <<50, -5>>, capex_dep |-> <<150, 10>>,
     current_ratio |-> <<250, 50>>, roe |-> <<25, -1>>, fcf_debt |-> <<50, -20>>,
     debt_equity |-> <<10, 500>>, ebitda_margin |-> <<30, 2>>, net_debt_ebitda |-> <<100, 700>>,
     roa |-> <<15, -1>>]

\* the first k extra ratios, k <= MaxExtra, each at one of its samples
ExtraFinSet ==
    UNION {{[r \in DOMAIN c |-> Dec(ExtraSamples[r][c[r]])] :
              c \in [{ExtraNames[i] : i \in 1..k} -> {1, 2}]} : k \in 0..MaxExtra}

Merge(d1, d2) == [k \in DOMAIN d1 \cup DOMAIN d2 |-> IF k \in DOMAIN d1 THEN d1[k] ELSE d2[k]]

PeersSet == {EmptyDict,
             [interest_coverage |-> <<2, 3>>],
             [interest_coverage |-> <<20, 30>>, dscr |-> <<0, 0>>, roe |-> << >>, debt_ebitda |-> <<1>>]}

\* a sovereign grade with its outlook; a grade off the scale or absent comes without one
SovereignSet ==
    {<<None, None>>, <<Some("XX"), None>>}
    \cup {<<Some(g), o>> : g \in {"AAA", "BBB-"},
                          o \in {None, Some("Positive"), Some("Stable"), Some("Negative")}}

\* SCORE_TO_RATING without its 0 cutoff: the configuration defect the "N/R" grade is for
TruncatedScoreToRating == SubSeq(ShippedScoreToRating, 1, Len(ShippedScoreToRating) - 1)

ExplicitRatingWeights == [quantitative |-> Some(Dec(70)), qualitative |-> Some(Dec(30))]
\* one weight configured, the other not
HalfRatingWeights == [quantitative |-> Some(Dec(70)), qualitative |-> None]

Quant(fin_t0, fin_t1, components_t0, peers_t0) ==
    [fin_t0 |-> fin_t0, fin_t1 |-> fin_t1, components_t0 |-> components_t0, peers_t0 |-> peers_t0]

Pending == [exc |-> "pending"]
NoCall == [fn |-> "none"]

\* grades, notching and the sovereign cap
InitCap ==
    /\ SCORE_TO_RATING = ShippedScoreToRating
    /\ RATING_WEIGHTS = ShippedRatingWeights
    /\ quant_inputs \in {Quant(f, EmptyDict, FullComponents, EmptyDict) : f \in DistressFinSet}
    /\ qual_inputs \in {[factors_t0 |-> f] : f \in FactorsSet({3, 5})}
    /\ \E sov \in SovereignSet : sovereign_rating = sov[1] /\ sovereign_outlook = sov[2]
    /\ enable_hardstops \in BOOLEAN
    /\ enable_sovereign_cap \in BOOLEAN

\* the trend of the distress metrics against the prior period
InitTrend ==
    /\ SCORE_TO_RATING = ShippedScoreToRating
    /\ RATING_WEIGHTS = ShippedRatingWeights
    /\ quant_inputs \in {Quant(f, g, FullComponents, EmptyDict) :
                            f \in DistressFinSet, g \in PriorFinSet \ {EmptyDict}}
    /\ qual_inputs \in {[factors_t0 |-> f] : f \in FactorsSet({5})}
    /\ sovereign_rating = None
    /\ sovereign_outlook = None
    /\ enable_hardstops = TRUE
    /\ enable_sovereign_cap = FALSE

\* configuration and balance-sheet components
InitConfig ==
    /\ SCORE_TO_RATING \in {ShippedScoreToRating, TruncatedScoreToRating}
    /\ RATING_WEIGHTS \in {ShippedRatingWeights, ExplicitRatingWeights, HalfRatingWeights}
    /\ quant_inputs \in {Quant(f, EmptyDict, c, EmptyDict) :
                            f \in {EmptyDict, [interest_coverage |-> Dec(900)], [altman_z |-> Dec(350)]},
                            c \in ComponentsSet}
    /\ qual_inputs \in {[factors_t0 |-> f] : f \in FactorsSet({1, 7})}
    /\ sovereign_rating \in {None, Some("BBB-")}
    /\ sovereign_outlook = IF sovereign_rating = None THEN None ELSE Some("Stable")
    /\ enable_hardstops \in BOOLEAN
    /\ enable_sovereign_cap = (sovereign_rating # None)
    /\ (SCORE_TO_RATING # ShippedScoreToRating \/ RATING_WEIGHTS # ShippedRatingWeights
        \/ quant_inputs.components_t0 # FullComponents)

\* many scored items
InitScores ==
    /\ SCORE_TO_RATING = ShippedScoreToRating
    /\ RATING_WEIGHTS = ShippedRatingWeights
    /\ quant_inputs \in {Quant(Merge(f, x), EmptyDict, FullComponents, p) :
                            f \in {EmptyDict, [interest_coverage |-> Dec(900), dscr |-> Dec(300)]},
                            x \in ExtraFinSet \ {EmptyDict}, p \in PeersSet}
    /\ qual_inputs \in {[factors_t0 |-> f] : f \in FactorsSet({1, 5})}
    /\ sovereign_rating = None
    /\ sovereign_outlook = None
    /\ enable_hardstops = FALSE
    /\ enable_sovereign_cap = FALSE

\* a capped run whose distress metrics all fell against the prior period
InitCapTrend ==
    /\ SCORE_TO_RATING = ShippedScoreToRating
    /\ RATING_WEIGHTS = ShippedRatingWeights
    /\ quant_inputs \in {Quant(f, [interest_coverage |-> Dec(950), dscr |-> Dec(500),
                                   altman_z |-> Dec(500)], FullComponents, EmptyDict) :
                            f \in DistressFinSet}
    /\ qual_inputs \in {[factors_t0 |-> f] : f \in FactorsSet({5})}
    /\ \E sov \in SovereignSet : sovereign_rating = sov[1] /\ sovereign_outlook = sov[2]
    /\ enable_hardstops = TRUE
    /\ enable_sovereign_cap = TRUE

Init ==
    /\ InitCap \/ InitTrend \/ InitConfig \/ InitScores \/ InitCapTrend
    /\ out = Pending
    /\ call = NoCall

\* one call of RatingModel.compute_final_rating on the inputs
Rate ==
    /\ out = Pending
    /\ out' = compute_final_rating(quant_inputs, qual_inputs, sovereign_rating,
                                   sovereign_outlook, enable_hardstops, enable_sovereign_cap)
    /\ quant_inputs' = [quant_inputs EXCEPT !.fin_t0 = out'.fin_t0]
    /\ UNCHANGED <<SCORE_TO_RATING, RATING_WEIGHTS, qual_inputs, sovereign_rating,
                   sovereign_outlook, enable_hardstops, enable_sovereign_cap, call>>

Next == Rate

Spec == Init /\ [][Next]_vars

----------------------------------------------------------------------------
(* Direct calls of the helpers, one per behaviour, under each configuration *)

Grades == Range(RATING_SCALE) \cup {"N/R", "XX"}

\* the ratio sets and Altman-Z values of a direct compute_distress_notches call: each
\* metric absent, just below and at each of its thresholds
DistressCallFin ==
    {DictOf([interest_coverage |-> ic, dscr |-> d]) :
        ic \in OptDec({49, 50, 79, 80, 99, 100}), d \in OptDec({79, 80, 89, 90, 99, 100})}

DistressCallZ == {FNaN} \cup {Dec(h) : h \in {119, 120, 149, 150, 180, 181}}

InitHelpers ==
    /\ SCORE_TO_RATING \in {ShippedScoreToRating, TruncatedScoreToRating}
    /\ RATING_WEIGHTS \in {ShippedRatingWeights, ExplicitRatingWeights, HalfRatingWeights}
    /\ quant_inputs = Quant(EmptyDict, EmptyDict, EmptyDict, EmptyDict)
    /\ qual_inputs = [factors_t0 |-> EmptyDict]
    /\ sovereign_rating = None
    /\ sovereign_outlook = None
    /\ enable_hardstops = FALSE
    /\ enable_sovereign_cap = FALSE
    /\ out = Pending
    /\ call = NoCall

\* a helper call reads the configuration and writes nothing
HelperFrame == UNCHANGED <<SCORE_TO_RATING, RATING_WEIGHTS, quant_inputs, qual_inputs,
                           sovereign_rating, sovereign_outlook, enable_hardstops,
                           enable_sovereign_cap, out>>

CallMoveNotches ==
    /\ call = NoCall
    /\ \E g \in Grades, n \in (-MaxNotch)..MaxNotch :
          call' = [fn |-> "move_notches", args |-> <<g, n>>, ret |-> move_notches(g, n)]
    /\ HelperFrame

CallApplySovereignCap ==
    /\ call = NoCall
    /\ \E g \in Grades, sov \in {None} \cup {Some(x) : x \in Grades} :
          call' = [fn |-> "apply_sovereign_cap", args |-> <<g, sov>>,
                   ret |-> apply_sovereign_cap(g, sov)]
    /\ HelperFrame

CallComputeEffectiveWeights ==
    /\ call = NoCall
    /\ \E n_quant \in (-1)..MaxCount, n_qual \in (-1)..MaxCount :
          call' = [fn |-> "compute_effective_weights", args |-> <<n_quant, n_qual>>,
                   ret |-> compute_effective_weights(n_quant, n_qual)]
    /\ HelperFrame

CallGetRatingBand ==
    /\ call = NoCall
    /\ \E g \in Grades :
          call' = [fn |-> "get_rating_band", args |-> <<g>>, ret |-> get_rating_band(g)]
    /\ HelperFrame

CallComputeDistressNotches ==
    /\ call = NoCall
    /\ \E fin \in DistressCallFin, z \in DistressCallZ :
          call' = [fn |-> "compute_distress_notches", args |-> <<fin, z>>,
                   ret |-> compute_distress_notches(fin, z)]
    /\ HelperFrame

\* the values of a direct score_ratio call, in hundredths: every finite bound of the
\* shipped grids, with the decimal just below and just above it
GridBoundHundredths == {-10, 0, 4, 5, 8, 10, 12, 15, 20, 25, 35, 40, 50, 70, 80, 90, 100, 120,
                        150, 180, 200, 250, 270, 300, 350, 400, 450, 500, 600, 800}

ScoreRatioCallValues ==
    {None, FNaN, FInf, FNegInf}
    \cup {Dec(h + d) : h \in GridBoundHundredths, d \in {-1, 0, 1}}

CallScoreRatio ==
    /\ call = NoCall
    /\ \E name \in DOMAIN RATIO_GRIDS \cup {"unknown_ratio"}, value \in ScoreRatioCallValues :
          call' = [fn |-> "score_ratio", args |-> <<name, value>>, ret |-> score_ratio(name, value)]
    /\ HelperFrame

\* scores of [0, 100] in hundredths: each shipped cutoff, the values one
\* hundredth below and above it, the middle of its first unit, and 100
ScoreHundredths ==
    {h \in {100 * e[1] + d : e \in Range(ShippedScoreToRating), d \in {-1, 0, 1, 50}} : h >= 0}
    \cup {10000}

ScoreCallValues == {Dec(h) : h \in ScoreHundredths}

\* get_rating_band(score_to_rating(score)): the outcome of the first call, then
\* of the second when the first returned
BandOfRated(rated) == IF rated.exc # "" THEN rated ELSE get_rating_band(rated.v)

RateAndBand(rated) == [rated |-> rated, band |-> BandOfRated(rated)]

CallScoreToRating ==
    /\ call = NoCall
    /\ \E lower \in ScoreCallValues, higher \in ScoreCallValues :
          /\ FLe(lower, higher)
          /\ call' = [fn |-> "score_to_rating", args |-> <<lower, higher>>, ret |-> <<RateAndBand(score_to_rating(lower)), RateAndBand(score_to_rating(higher))>>]
    /\ HelperFrame

\* factor values on and off the qualitative scale
QualCallValues == {-1, 0, 1, 2, 3, 4, 5, 6}

CallComputeQualitative ==
    /\ call = NoCall
    /\ \E f \in FactorsSet(QualCallValues) :
          call' = [fn |-> "compute_qualitative", args |-> <<f>>,
                   ret |-> compute_qualitative([factors_t0 |-> f])]
    /\ HelperFrame

NextHelpers ==
    \/ CallMoveNotches
    \/ CallApplySovereignCap
    \/ CallComputeEffectiveWeights
    \/ CallGetRatingBand
    \/ CallComputeDistressNotches
    \/ CallComputeQualitative
    \/ CallScoreRatio
    \/ CallScoreToRating

SpecHelpers == InitHelpers /\ [][NextHelpers]_vars

----------------------------------------------------------------------------
(* Properties *)

OnScale(g) == g \in Range(RATING_SCALE)

\* C1: with the sovereign cap enabled and a sovereign grade on the rating scale, the
\* final grade of a result (whose base grade is on the scale) is never better than the
\* sovereign grade: index(final_rating) >= index(sovereign_rating)
C1_SovereignCapInvariant ==
    (/\ out.exc = ""
     /\ enable_sovereign_cap
     /\ sovereign_rating # None
     /\ OnScale(sovereign_rating[1])
     /\ OnScale(out.base_rating))
    => (OnScale(out.final_rating) /\ Index(out.final_rating) >= Index(sovereign_rating[1]))

\* the cap lowers a notched grade that was better than the sovereign's
C1_Witness ==
    /\ out.exc = ""
    /\ enable_sovereign_cap
    /\ sovereign_rating = Some("BBB-")
    /\ out.distress_notches < 0
    /\ Index(out.hardstop_rating) < Index("BBB-")
    /\ out.final_rating = "BBB-"

\* C2: compute_final_rating never raises: every call ends with a complete RatingOutputs,
\* and a combined score below every cutoff of the table gives a result whose base grade
\* is "N/R", with an outlook and an explanation, not an exception
C2_NeverRaises ==
    out # Pending
    => /\ out.exc = ""
       /\ (\A i \in 1..Len(SCORE_TO_RATING) : FFloor(out.combined_score) < SCORE_TO_RATING[i][1])
          => (out.base_rating = "N/R" /\ out.outlook \in {"Positive", "Stable", "Negative"}
              /\ Len(out.rating_explanation) > 0)

\* C3: under the shipped cutoff table, base_rating, hardstop_rating, capped_rating and
\* final_rating of every result are members of RATING_SCALE, whatever the inputs, the
\* flags and the sovereign grade (valid, unknown or absent)
C3_GradesOnScale ==
    (out.exc = "" /\ SCORE_TO_RATING = ShippedScoreToRating)
    => {out.base_rating, out.hardstop_rating, out.capped_rating, out.final_rating}
           \subseteq Range(RATING_SCALE)

\* four notches down from the bottom of the scale, against an unknown sovereign grade
C3_Witness ==
    /\ out.exc = ""
    /\ SCORE_TO_RATING = ShippedScoreToRating
    /\ enable_sovereign_cap
    /\ sovereign_rating = Some("XX")
    /\ out.distress_notches = MAX_DISTRESS_NOTCHES
    /\ Index(out.base_rating) - out.distress_notches > Len(RATING_SCALE) - 1
    /\ out.hardstop_rating = "C"
    /\ out.final_rating = "C"

\* C4: compute_distress_notches returns a notch total that is <= 0 and
\* >= MAX_DISTRESS_NOTCHES, for every ratio set and Altman-Z (missing metrics and a
\* not-a-number Altman-Z included), also when all three metrics fire together
C4_NotchesWithinFloor ==
    call.fn = "compute_distress_notches"
    => (call.ret.total_notches <= 0 /\ call.ret.total_notches >= MAX_DISTRESS_NOTCHES)

\* all three metrics fire, in their worst bands: -4, -3 and -4
C4_Witness ==
    /\ call.fn = "compute_distress_notches"
    /\ call.args = <<[interest_coverage |-> Dec(49), dscr |-> Dec(79)], Dec(119)>>
    /\ DOMAIN call.ret.details = {"interest_coverage", "dscr", "altman_z"}
    /\ call.ret.total_notches = MAX_DISTRESS_NOTCHES

\* 0 <= x <= 100
InScoreRange(x) == FLe(FZero, x) /\ FLe(x, FInt(100))

\* C5: with auto-weighting (the shipped RATING_WEIGHTS), quantitative_score,
\* qualitative_score and combined_score of every result lie in [0, 100]
C5_ScoresInRange ==
    (out.exc = "" /\ RATING_WEIGHTS = ShippedRatingWeights)
    => /\ InScoreRange(out.quantitative_score)
       /\ InScoreRange(out.qualitative_score)
       /\ InScoreRange(out.combined_score)

C7_MoveNotchesClamps ==
    (call.fn = "move_notches" /\ OnScale(call.args[1]))
    => LET g == call.args[1]
           n == call.args[2]
           N == Len(RATING_SCALE)
           target == Index(g) - n
       IN  /\ OnScale(call.ret)
           /\ Index(call.ret) = (IF target < 0 THEN 0 ELSE IF target > N - 1 THEN N - 1 ELSE target)
           /\ (n = 0 => call.ret = g)
           /\ (n < 0 => Index(call.ret) >= Index(g))
           /\ (n > 0 => Index(call.ret) <= Index(g))
           /\ (target < 0 => call.ret = RATING_SCALE[1])
           /\ (target > N - 1 => call.ret = RATING_SCALE[N])

\* a move down from the best grade by more than the length of the scale
C7_Witness ==
    /\ call.fn = "move_notches"
    /\ call.args = <<"AAA", -MaxNotch>>
    /\ MaxNotch > Len(RATING_SCALE)
    /\ call.ret = "C"

\* C8: apply_sovereign_cap(issuer, sovereign) is the worse (higher-index) of the two
\* grades when both are on the scale, so equal to or worse than each; it is the issuer
\* grade when the sovereign grade is None or either grade is off the scale
C8_CapIsWorseOfTwo ==
    call.fn = "apply_sovereign_cap"
    => LET issuer == call.args[1]
           sov == call.args[2]
       IN  IF sov # None /\ OnScale(issuer) /\ OnScale(sov[1])
           THEN /\ call.ret \in {issuer, sov[1]}
                /\ Index(call.ret) >= Index(issuer)
                /\ Index(call.ret) >= Index(sov[1])
           ELSE call.ret = issuer

\* the sovereign grade is the worse one
C8_Witness ==
    /\ call.fn = "apply_sovereign_cap"
    /\ call.args = <<"A", Some("BB")>>
    /\ call.ret = "BB"

\* C9: compute_effective_weights(n_quant, n_qual) returns the two explicit weights when
\* both are configured; otherwise (n_quant/total, n_qual/total), non-negative and summing
\* to 1, when the total of the counts (a negative count taken as 0) is positive, and
\* exactly (0, 0), which makes the combined score 0, when the total is 0
C9_EffectiveWeights ==
    call.fn = "compute_effective_weights"
    => LET nq == Max(call.args[1], 0)
           nl == Max(call.args[2], 0)
           total == nq + nl
           w == call.ret
       IN  IF RATING_WEIGHTS.quantitative # None /\ RATING_WEIGHTS.qualitative # None
           THEN w = <<RATING_WEIGHTS.quantitative[1], RATING_WEIGHTS.qualitative[1]>>
           ELSE IF total > 0
           THEN /\ w = <<FDiv(nq, total), FDiv(nl, total)>>
                /\ FLe(FZero, w[1]) /\ FLe(FZero, w[2])
                /\ FAdd(w[1], w[2]) = FInt(1)
           ELSE /\ w = <<FZero, FZero>>
                /\ \A x \in {0, 25, 100}, y \in {0, 50, 100} :
                      CombinedScore(w, FInt(x), FInt(y)) = FZero

\* automatic weights of nine quantitative and two qualitative items
C9_Witness ==
    /\ call.fn = "compute_effective_weights"
    /\ RATING_WEIGHTS = ShippedRatingWeights
    /\ call.args = <<9, 2>>
    /\ call.ret = <<FDiv(9, 11), FDiv(2, 11)>>

\* the cutoff the table gives grade g
CutoffOf(g) == (CHOOSE e \in Range(SCORE_TO_RATING) : e[2] = g)[1]

\* C10: for a grade of the cutoff table, get_rating_band returns [min, max] with min the
\* grade's own cutoff and max the next-better grade's cutoff minus 1 (100 for the best
\* grade), and min <= max for every grade of the shipped table; a grade missing from the
\* table is an error
C10_RatingBand ==
    call.fn = "get_rating_band"
    => LET g == call.args[1]
       IN  IF \E e \in Range(SCORE_TO_RATING) : e[2] = g
           THEN /\ call.ret.exc = ""
                /\ call.ret.v[1] = CutoffOf(g)
                /\ call.ret.v[2] = (IF g = RATING_SCALE[1] THEN 100
                                    ELSE CutoffOf(RATING_SCALE[Index(g)]) - 1)
                /\ (SCORE_TO_RATING = ShippedScoreToRating => call.ret.v[1] <= call.ret.v[2])
           ELSE call.ret.exc = "ValueError"

\* the band of BBB, between the cutoffs 55 and 60
C10_Witness ==
    /\ call.fn = "get_rating_band"
    /\ call.args = <<"BBB">>
    /\ call.ret = Ret(<<55, 59>>)

\* C11: in every result, whichever outlook branch ran, a final grade equal to the best
\* grade of the rating scale never carries the outlook Positive: a Positive band outlook
\* that the branch would keep comes out as Stable
C11_NoPositiveAtBestGrade ==
    (out.exc = "" /\ out.final_rating = RATING_SCALE[1])
    => /\ out.outlook # "Positive"
       /\ (out.outlook_branch = "trend" /\ out.distress_notches >= 0
           /\ out.base_outlook = "Positive") => out.outlook = "Stable"
       /\ (out.outlook_branch = "sovereign" /\ out.base_outlook = "Positive"
           /\ sovereign_outlook = Some("Positive")) => out.outlook = "Stable"

\* the sovereign-binding branch at AAA with both outlooks Positive: the guard acts
C11_Witness ==
    /\ out.exc = ""
    /\ out.final_rating = "AAA"
    /\ out.outlook_branch = "sovereign"
    /\ out.base_outlook = "Positive"
    /\ sovereign_outlook = Some("Positive")
    /\ out.outlook = "Stable"

\* the sum of 25 * (f[k] - 1) over the names k of K
RECURSIVE ScaleSum(_, _)
ScaleSum(f, K) == IF K = {} THEN 0
                  ELSE LET k == CHOOSE k \in K : TRUE IN 25 * (f[k] - 1) + ScaleSum(f, K \ {k})

\* C12: compute_qualitative skips every factor whose value is outside 1..5 without
\* raising: the factor is neither summed nor counted in n_qual_items, the score is the
\* arithmetic mean of the other factors' scores (1..5 score 0, 25, 50, 75, 100), and it
\* is 0.0 with a count of 0 when no factor is scorable
C12_UnscorableFactorsSkipped ==
    call.fn = "compute_qualitative"
    => LET f == call.args[1]
           scorable == {k \in DOMAIN f : f[k] \in 1..5}
           n == Cardinality(scorable)
       IN  /\ call.ret.n_qual_items = n
           /\ call.ret.qualitative_score = (IF n = 0 THEN FZero ELSE FDiv(ScaleSum(f, scorable), n))

\* one factor off the scale beside one scoring 75: the mean is 75 over one item
C12_Witness ==
    /\ call.fn = "compute_qualitative"
    /\ call.args = <<[management_quality |-> 6, industry_position |-> 4]>>
    /\ call.ret = [qualitative_score |-> FInt(75), n_qual_items |-> 1]

\* C13: score_ratio returns the score of the first grid interval, in declaration order,
\* with low <= value < high, so a value equal to an interval's lower bound is scored by
\* that interval and not by the one ending there; it returns None when the name has no
\* grid, the value is None or not-a-number, or no interval matches; every score of the
\* shipped grids is one of 0, 25, 50, 75, 100
C13_ScoreRatioFirstInterval ==
    call.fn = "score_ratio"
    => LET name == call.args[1]
           value == call.args[2]
       IN  IF name \notin DOMAIN RATIO_GRIDS \/ value = None \/ value = FNaN
           THEN call.ret = None
           ELSE LET grid == RATIO_GRIDS[name]
                    hits == {i \in 1..Len(grid) : FLe(grid[i][1], value) /\ FLt(value, grid[i][2])}
                IN  /\ call.ret = (IF hits = {} THEN None
                                   ELSE Some(grid[CHOOSE i \in hits : \A j \in hits : i <= j][3]))
                    /\ \A i \in 1..Len(grid) :
                          /\ (value = grid[i][1] /\ FLt(grid[i][1], grid[i][2])) => i \in hits
                          /\ value = grid[i][2] => i \notin hits
                    /\ call.ret \in {None} \cup {Some(x) : x \in {0, 25, 50, 75, 100}}

\* 2.0 is the lower bound of the second debt_ebitda interval and the upper bound of the first
C13_Witness ==
    /\ call.fn = "score_ratio"
    /\ call.args = <<"debt_ebitda", Dec(200)>>
    /\ RATIO_GRIDS["debt_ebitda"][1][2] = Dec(200)
    /\ RATIO_GRIDS["debt_ebitda"][2][1] = Dec(200)
    /\ call.ret = Some(75)

OutlookValues == {"Positive", "Stable", "Negative"}

\* C14: the sovereign-binding outlook branch is taken exactly when the sovereign cap is
\* binding and the sovereign outlook is one of Positive, Stable, Negative.  The outlook
\* it assigns is the base outlook when the post-distress grade, the capped grade and the
\* sovereign grade are equal and the base outlook equals the sovereign outlook;
\* otherwise the sovereign outlook for a Positive base outlook against a Stable or
\* Negative sovereign outlook, else Negative when either outlook is Negative, else
\* Stable.  The distress notches and the trend of the distress metrics change nothing
C14_SovereignBindingBranch ==
    out.exc = ""
    => /\ (out.outlook_branch = "sovereign")
          <=> (out.sovereign_cap_binding /\ sovereign_outlook \in {Some(o) : o \in OutlookValues})
       /\ out.outlook_branch = "sovereign"
          => LET b == out.base_outlook
                 s == sovereign_outlook[1]
                 aligned == /\ out.hardstop_rating = out.capped_rating
                            /\ Some(out.capped_rating) = sovereign_rating
                            /\ b = s
             IN  out.branch_outlook =
                    (IF aligned THEN b
                     ELSE IF b = "Positive" /\ s \in {"Stable", "Negative"} THEN s
                     ELSE IF b = "Negative" \/ s = "Negative" THEN "Negative"
                     ELSE "Stable")

\* the cap lowers a notched grade to the sovereign's; the distress metrics all fell, which
\* in the other branch gives Negative; the branch gives Stable from the two outlooks
C14_Witness ==
    /\ out.exc = ""
    /\ out.outlook_branch = "sovereign"
    /\ out.distress_notches < 0
    /\ out.hardstop_rating # out.capped_rating
    /\ derive_outlook_with_distress_trend(out.base_outlook, out.distress_notches,
                                          quant_inputs.fin_t0, quant_inputs.fin_t1) = "Negative"
    /\ out.base_outlook = "Stable"
    /\ sovereign_outlook = Some("Positive")
    /\ out.branch_outlook = "Stable"

\* the three distress metrics
DistressMetrics == {"interest_coverage", "dscr", "altman_z"}

\* C15: in the distress-trend branch the outlook assigned is the base outlook when no
\* distress notch fired; when notching fired, interest coverage, DSCR and Altman-Z of the
\* current period are compared with the prior period (higher is better): Stable when
\* some metric improved and none deteriorated, Negative when some deteriorated and none
\* improved, Stable when mixed or none is comparable, and so never Positive.  The
\* current period's Altman-Z is the one the run rated with (altman_z_t0)
C15_DistressTrendBranch ==
    (out.exc = "" /\ out.outlook_branch = "trend")
    => LET current == [r \in DistressMetrics |->
                          IF r = "altman_z" THEN Some(out.altman_z_t0)
                          ELSE Get(quant_inputs.fin_t0, r)]
           prior == [r \in DistressMetrics |-> Get(quant_inputs.fin_t1, r)]
           comparable == {r \in DistressMetrics : current[r] # None /\ prior[r] # None}
           improved == \E r \in comparable : FLt(prior[r][1], current[r][1])
           deteriorated == \E r \in comparable : FLt(current[r][1], prior[r][1])
       IN  /\ out.branch_outlook =
                 (IF out.distress_notches >= 0 THEN out.base_outlook
                  ELSE IF improved /\ ~deteriorated THEN "Stable"
                  ELSE IF deteriorated /\ ~improved THEN "Negative"
                  ELSE "Stable")
           /\ out.distress_notches < 0 => out.branch_outlook # "Positive"

\* C16: the base outlook comes from the floored combined score and the band of the base
\* grade (the model-only grade, not the notched or capped one): Positive when the floored
\* score equals the top of the band, Negative when it equals the bottom, Stable otherwise
C16_BaseOutlookFromBand ==
    out.exc = ""
    => LET cs == FFloor(out.combined_score)
           g == out.base_rating
           bottom == CutoffOf(g)
           top == IF g = RATING_SCALE[1] THEN 100 ELSE CutoffOf(RATING_SCALE[Index(g)]) - 1
       IN  out.base_outlook = (IF cs = top THEN "Positive"
                               ELSE IF cs = bottom THEN "Negative"
                               ELSE "Stable")

\* a score at the top of the base grade's band, in a run whose notched grade is another
C16_Witness ==
    /\ out.exc = ""
    /\ out.base_rating # "AAA"
    /\ out.hardstop_rating # out.base_rating
    /\ FFloor(out.combined_score) = CutoffOf(RATING_SCALE[Index(out.base_rating)]) - 1
    /\ FInt(FFloor(out.combined_score)) # out.combined_score
    /\ out.base_outlook = "Positive"

\* the bands of a metric whose threshold the value v is strictly below (v None: absent)
BandsBelow(name, v) ==
    IF v = None THEN {}
    ELSE {i \in 1..Len(DISTRESS_BANDS[name]) : FLt(v[1], DISTRESS_BANDS[name][i][1])}

\* the penalty of the first of those bands, 0 when there is none
FirstPenalty(name, v) ==
    IF BandsBelow(name, v) = {} THEN 0
    ELSE DISTRESS_BANDS[name][CHOOSE i \in BandsBelow(name, v) :
                                 \A j \in BandsBelow(name, v) : i <= j][2]

\* C17: compute_distress_notches treats interest coverage, DSCR and Altman-Z
\* independently: each adds the penalty of the first band, in declaration order, whose
\* threshold its value is strictly below (one band at most; a value equal to a threshold
\* does not fire that band); an absent metric and a not-a-number Altman-Z add nothing;
\* the details hold exactly the metrics that fired, with their values.  The total is the
\* sum of the three penalties, held at MAX_DISTRESS_NOTCHES
C17_FirstBandPerMetric ==
    call.fn = "compute_distress_notches"
    => LET fin == call.args[1]
           value == [interest_coverage |-> Get(fin, "interest_coverage"),
                     dscr |-> Get(fin, "dscr"),
                     altman_z |-> Some(call.args[2])]
           fired == {r \in DistressMetrics : BandsBelow(r, value[r]) # {}}
           sum == FirstPenalty("interest_coverage", value["interest_coverage"])
                  + FirstPenalty("dscr", value["dscr"])
                  + FirstPenalty("altman_z", value["altman_z"])
       IN  /\ call.ret.total_notches = Max(sum, MAX_DISTRESS_NOTCHES)
           /\ DOMAIN call.ret.details = fired
           /\ \A r \in fired : call.ret.details[r] = value[r][1]
           /\ (call.args[2] = FNaN) => "altman_z" \notin fired
           /\ \A r \in DistressMetrics : \A i \in 1..Len(DISTRESS_BANDS[r]) :
                 value[r] = Some(DISTRESS_BANDS[r][i][1]) => i \notin BandsBelow(r, value[r])

\* interest coverage equal to the 0.8 threshold fires the next band (-2), DSCR is absent
\* and Altman-Z is not a number
C17_Witness ==
    /\ call.fn = "compute_distress_notches"
    /\ call.args = <<[interest_coverage |-> Dec(80)], FNaN>>
    /\ call.ret = [total_notches |-> -2, details |-> [interest_coverage |-> Dec(80)]]

\* C18: compute_final_rating leaves the caller's quant_inputs.fin_t0 unchanged: an
\* Altman-Z derived from the components is written to a private copy and never appears
\* in the caller's mapping; an Altman-Z the caller supplies is used as is, and the
\* components are not consulted (a missing component raises nothing)
C18_CallerRatiosUnchanged ==
    [][/\ quant_inputs'.fin_t0 = quant_inputs.fin_t0
       /\ ("altman_z" \in DOMAIN quant_inputs.fin_t0 /\ out' # out)
          => /\ out'.exc # "KeyError"
             /\ out'.exc = "" => out'.altman_z_t0 = quant_inputs.fin_t0["altman_z"]]_vars

\* a run that derived Altman-Z from the components: the caller's fin_t0 has no altman_z
C18_Witness ==
    /\ out.exc = ""
    /\ quant_inputs.components_t0 = FullComponents
    /\ out.altman_z_t0 = compute_altman_z_from_components(100, 200, 50, 20, 300, 150, 400)
    /\ "interest_coverage" \in DOMAIN quant_inputs.fin_t0
    /\ "altman_z" \notin DOMAIN quant_inputs.fin_t0

\* C19: the adjustments only move the grade toward worse.  In every result with a base
\* grade on the scale, index(base_rating) <= index(hardstop_rating) <=
\* index(capped_rating) = index(final_rating); with hardstops disabled hardstop_rating is
\* base_rating and distress_notches is 0; with the cap disabled or no sovereign grade
\* capped_rating is hardstop_rating
C19_GradeOnlyWorsens ==
    (out.exc = "" /\ OnScale(out.base_rating))
    => /\ OnScale(out.hardstop_rating) /\ OnScale(out.capped_rating) /\ OnScale(out.final_rating)
       /\ Index(out.base_rating) <= Index(out.hardstop_rating)
       /\ Index(out.hardstop_rating) <= Index(out.capped_rating)
       /\ Index(out.capped_rating) = Index(out.final_rating)
       /\ ~enable_hardstops => (out.hardstop_rating = out.base_rating /\ out.distress_notches = 0)
       /\ (~enable_sovereign_cap \/ sovereign_rating = None)
          => out.capped_rating = out.hardstop_rating

\* a grade notched down and then capped further down
C19_Witness ==
    /\ out.exc = ""
    /\ OnScale(out.base_rating)
    /\ Index(out.base_rating) < Index(out.hardstop_rating)
    /\ Index(out.hardstop_rating) < Index(out.capped_rating)
    /\ out.final_rating = out.capped_rating

\* Negative < Stable < Positive
OutlookRank(o) == IF o = "Negative" THEN 0 ELSE IF o = "Stable" THEN 1 ELSE 2

\* C20: whenever the sovereign-binding branch is taken, the outlook is never more
\* optimistic than the sovereign outlook nor than the base outlook, under
\* Negative < Stable < Positive: the outlook the branch assigns and the one returned
C20_BindingOutlookNotMoreOptimistic ==
    (out.exc = "" /\ out.outlook_branch = "sovereign")
    => /\ out.branch_outlook \in OutlookValues
       /\ OutlookRank(out.branch_outlook) <= OutlookRank(sovereign_outlook[1])
       /\ OutlookRank(out.branch_outlook) <= OutlookRank(out.base_outlook)
       /\ OutlookRank(out.outlook) <= OutlookRank(out.branch_outlook)

\* a Positive base outlook under a Negative sovereign outlook, grades not aligned
C20_Witness ==
    /\ out.exc = ""
    /\ out.outlook_branch = "sovereign"
    /\ out.hardstop_rating # out.capped_rating
    /\ out.base_outlook = "Positive"
    /\ sovereign_outlook = Some("Negative")
    /\ out.outlook = "Negative"

\* C21: under the shipped cutoff table, for scores in [0, 100],
\* score_to_rating returns a grade, the band get_rating_band gives for that
\* grade holds the floored score (min <= floor(s) <= max), and of two scores
\* the higher one never gets the worse grade.
C21_ScoreGradeBandAgree ==
    (call.fn = "score_to_rating" /\ SCORE_TO_RATING = ShippedScoreToRating)
        => /\ \A k \in 1..2 :
                 /\ call.ret[k].rated.exc = ""
                 /\ call.ret[k].band.exc = ""
                 /\ call.ret[k].band.v[1] <= FFloor(call.args[k])
                 /\ FFloor(call.args[k]) <= call.ret[k].band.v[2]
           /\ Index(call.ret[2].rated.v) <= Index(call.ret[1].rated.v)

\* 59.99 is rated BBB, band (55, 59), beside 60.0 rated BBB+, band (60, 64)
C21_Witness ==
    /\ call.fn = "score_to_rating"
    /\ SCORE_TO_RATING = ShippedScoreToRating
    /\ call.args = <<Dec(5999), Dec(6000)>>
    /\ call.ret[1].rated = Ret("BBB")
    /\ call.ret[1].band = Ret(<<55, 59>>)
    /\ call.ret[2].rated = Ret("BBB+")
    /\ call.ret[2].band = Ret(<<60, 64>>)
====
